---- MODULE Spec2Model ----
(***************************************************************************)
(* Model of the two-towers repository: the seeded Rng (Mulberry32), the    *)
(* hazard engine OutcomeController, the discrete engine                    *)
(* ProbabilityController and the Game controller that drives it.           *)
(*                                                                         *)
(* Numbers.  A JavaScript integer-valued number n is the pair <<hi, lo>>   *)
(* with n = hi * 65536 + lo and lo \in 0..65535; hi is any integer, so the *)
(* pair holds signed 32-bit values (hi \in -32768..32767), unsigned ones   *)
(* (hi \in 0..65535) and the unwrapped sums in between.  The float that    *)
(* Rng.next returns is u / 2^32 and is kept as its numerator u.            *)
(* Probabilities are kept in units of 1/10000 (0.30 is 3000).              *)
(***************************************************************************)
EXTENDS Integers, Sequences, FiniteSets, TLC

VARIABLES
    inst,               \* Rng instances: id -> [made, seed, state]
    outs,               \* per Rng instance: the values its next() calls returned
    picked,             \* history: the last pick() call, its index, result and error
    rng,                \* state of the Rng the engine under test is bound to
    runType,            \* OutcomeController.runType
    consecutiveLosses,  \* OutcomeController.consecutiveLosses
    consecutiveWins,    \* OutcomeController.consecutiveWins
    roundNumber,        \* OutcomeController.roundNumber
    roundOpen,          \* history: startRound called and no round-end call since
    anyRoundEnd,        \* history: onRoundWon or onRoundLost has been called
    drawCount,          \* history: number of next() calls made on rng
    lastCall,           \* history: the last engine call, its argument, result and error
    state,              \* Game.state
    selectedTower,      \* Game.selectedTower
    balance,            \* Game.balance
    uiSelected,         \* Ui._selected
    playEnabled,        \* the play button is enabled (Ui.setPlayEnabled)
    pending,            \* playRound invocations in flight: where each waits, its resolution
    simModals,          \* simulation modals on screen
    message,            \* the message line of the Ui (Ui.setMessage)
    resolveCalls,       \* history: number of resolveRound calls the Game has made
    lastRound,          \* history: the last resolveRound call, its result and draws
    sim,                \* a simulate(rounds) call: its loop index, Rng and counters
    eco,                \* Economy: balance, roundValue, multiplier, swipeCount
    ecoCall             \* history: the last Economy call, what it returned, the fields before

rngVars == <<inst, outs, picked>>
hazardVars == <<rng, runType, consecutiveLosses, consecutiveWins, roundNumber,
                roundOpen, anyRoundEnd, drawCount, lastCall>>
gameVars == <<state, selectedTower, balance, uiSelected, playEnabled, pending,
              simModals, message, resolveCalls, lastRound>>
sideVars == <<sim, eco, ecoCall>>
vars == <<inst, outs, picked, rng, runType, consecutiveLosses, consecutiveWins,
          roundNumber, roundOpen, anyRoundEnd, drawCount, lastCall,
          state, selectedTower, balance, uiSelected, playEnabled, pending,
          simModals, message, resolveCalls, lastRound, sim, eco, ecoCall>>

----------------------------------------------------------------------------
(* Bounds of the model *)

MaxDraws == 3
MaxStreak == 4
MaxRound == 2
MaxEngineDraws == 3
MaxGameRounds == 3
MaxModals == 1
MaxStepIndex == 1000
MaxResolveCalls == 3
MaxSimRounds == 100
MaxEcoOps == 5

----------------------------------------------------------------------------
(* 32-bit integer arithmetic of JavaScript on <<hi, lo>> pairs *)

Half == 2 ^ 16

RECURSIVE BitXor(_, _)
BitXor(a, b) ==
    IF a = 0 THEN b
    ELSE IF b = 0 THEN a
    ELSE 2 * BitXor(a \div 2, b \div 2) + ((a + b) % 2)

RECURSIVE BitOr(_, _)
BitOr(a, b) ==
    IF a = 0 THEN b
    ELSE IF b = 0 THEN a
    ELSE 2 * BitOr(a \div 2, b \div 2) + (IF a % 2 = 1 \/ b % 2 = 1 THEN 1 ELSE 0)

\* ToUint32: n modulo 2^32, in 0 .. 2^32 - 1
ToUint32(n) == <<n[1] % Half, n[2]>>

\* ToInt32: n modulo 2^32, in -2^31 .. 2^31 - 1
ToInt32(n) ==
    LET h == n[1] % Half
    IN  <<IF h >= Half \div 2 THEN h - Half ELSE h, n[2]>>

\* a + b on numbers (no wrap)
Plus(a, b) ==
    LET s == a[2] + b[2]
    IN  <<a[1] + b[1] + s \div Half, s % Half>>

\* a ^ b
Xor32(a, b) ==
    LET x == ToUint32(a)
        y == ToUint32(b)
    IN  ToInt32(<<BitXor(x[1], y[1]), BitXor(x[2], y[2])>>)

\* a | b
Or32(a, b) ==
    LET x == ToUint32(a)
        y == ToUint32(b)
    IN  ToInt32(<<BitOr(x[1], y[1]), BitOr(x[2], y[2])>>)

\* a >>> k, for 0 <= k < 16
Ushr(a, k) ==
    LET x == ToUint32(a)
        p == 2 ^ k
        q == 2 ^ (16 - k)
    IN  <<x[1] \div p, (x[1] % p) * q + x[2] \div p>>

\* Math.imul(a, b): the low 32 bits of the product, as a signed integer
Imul(a, b) ==
    LET x  == ToUint32(a)
        y  == ToUint32(b)
        a0 == x[2] % 256
        a1 == x[2] \div 256
        a2 == x[1] % 256
        a3 == x[1] \div 256
        b0 == y[2] % 256
        b1 == y[2] \div 256
        b2 == y[1] % 256
        b3 == y[1] \div 256
        k0 == a0 * b0
        k1 == k0 \div 256 + a0 * b1 + a1 * b0
        k2 == k1 \div 256 + a0 * b2 + a1 * b1 + a2 * b0
        k3 == k2 \div 256 + a0 * b3 + a1 * b2 + a2 * b1 + a3 * b0
    IN  ToInt32(<<(k2 % 256) + 256 * (k3 % 256), (k0 % 256) + 256 * (k1 % 256)>>)

IsUint32(n) == n[1] \in 0..(Half - 1) /\ n[2] \in 0..(Half - 1)
IsInt32(n) == n[1] \in (0 - Half \div 2)..(Half \div 2 - 1) /\ n[2] \in 0..(Half - 1)

----------------------------------------------------------------------------
(* Rng *)

\* 0x6d2b79f5
MULBERRY_INC == <<27947, 31221>>

\* Rng.next, the state after the call
RngNextState(st) == ToInt32(Plus(ToInt32(st), MULBERRY_INC))

\* the mixing rounds of Rng.next without the final conversion to unsigned
RngMix(st) ==
    LET s  == RngNextState(st)
        t1 == Imul(Xor32(s, Ushr(s, 15)), Or32(<<0, 1>>, s))
        t2 == Xor32(Plus(t1, Imul(Xor32(t1, Ushr(t1, 7)), Or32(<<0, 61>>, t1))), t1)
    IN  Xor32(t2, Ushr(t2, 14))

RngNextValueSigned(st) == RngMix(st)

\* Rng.next, the value returned: the numerator u of u / 4294967296
RngNextValue(st) == ToUint32(RngMix(st))

\* Rng.chance(p) on the value u / 2^32 that next() returned: u / 2^32 < p / 10000
ProbScale == 100 * 100
Below(u, p) == u[1] * ProbScale + (u[2] * ProbScale) \div Half < p * Half

\* seeds given to the constructor: 0, 1, 0x5eedc0de, 0xffffffff
Seeds == {<<0, 0>>, <<0, 1>>, <<24301, 49374>>, <<65535, 65535>>}

RngIds == {1, 2, 3}

\* an Rng that has not been constructed yet
NoRng == [made |-> FALSE, seed |-> <<0, 0>>, state |-> <<0, 0>>]

\* new Rng(seed)
RngNew(i, seed) ==
    /\ ~inst[i].made
    /\ inst' = [inst EXCEPT ![i] = [made |-> TRUE, seed |-> seed, state |-> seed]]
    /\ UNCHANGED <<outs, picked, hazardVars, gameVars, sideVars>>

RngCallNextShared(i) ==
    /\ inst[i].made
    /\ Len(outs[i]) < MaxDraws
    /\ outs' = [outs EXCEPT ![i] = Append(@, RngNextValue(inst[i].state))]
    /\ inst' = [j \in RngIds |->
                  IF inst[j].made
                  THEN [inst[j] EXCEPT !.state = RngNextState(inst[i].state)]
                  ELSE inst[j]]
    /\ UNCHANGED <<picked, hazardVars, gameVars, sideVars>>

\* rng.next() on instance i
RngCallNext(i) ==
    /\ inst[i].made
    /\ Len(outs[i]) < MaxDraws
    /\ outs' = [outs EXCEPT ![i] = Append(@, RngNextValue(inst[i].state))]
    /\ inst' = [inst EXCEPT ![i].state = RngNextState(@)]
    /\ UNCHANGED <<picked, hazardVars, gameVars, sideVars>>

\* Math.floor(next() * n) for next() = u / 2^32
PickIndex(u, n) == (u[1] * n + (u[2] * n) \div Half) \div Half

\* the record of a pick call on an array of length n: the index it computed
\* and what arr[index] holds; an index outside the array reads as undefined
Pick(n, index) ==
    [called |-> TRUE, n |-> n, index |-> index,
     value |-> IF index < n THEN "item" ELSE "undefined", error |-> "none"]

NoPick ==
    [called |-> FALSE, n |-> 0, index |-> 0, value |-> "undefined", error |-> "none"]

\* lengths of the arrays the callers pass
PickSizes == {0, 1, 3}

\* rng.pick(arr) on instance i, for an array of length n
RngPick(i, n) ==
    /\ inst[i].made
    /\ Len(outs[i]) < MaxDraws
    /\ picked' = Pick(n, PickIndex(RngNextValue(inst[i].state), n))
    /\ outs' = [outs EXCEPT ![i] = Append(@, RngNextValue(inst[i].state))]
    /\ inst' = [inst EXCEPT ![i].state = RngNextState(@)]
    /\ UNCHANGED <<hazardVars, gameVars, sideVars>>

\* the record of an engine call: the operation, its step index (-1 when it
\* takes none), whether a round was open when it was made, the probability or
\* verdict it returned and the error it raised
Call(op, arg, open, prob, bomb) ==
    [op |-> op, arg |-> arg, open |-> open, prob |-> prob, bomb |-> bomb,
     error |-> "none", card |-> "none"]

\* the record of a ReelEngine call that returned the card of the given kind
CardCall(op, arg, open, prob, bomb, card) ==
    [op |-> op, arg |-> arg, open |-> open, prob |-> prob, bomb |-> bomb,
     error |-> "none", card |-> card]

\* new OutcomeController(rng), bound to an Rng of the given state
HazardFresh ==
    /\ runType = "medium"
    /\ consecutiveLosses = 0
    /\ consecutiveWins = 0
    /\ roundNumber = 0
    /\ roundOpen = FALSE
    /\ anyRoundEnd = FALSE
    /\ drawCount = 0
    /\ lastCall = Call("new", -1, FALSE, 0, FALSE)

HazardNew(st) == rng = st /\ HazardFresh

\* no engine is under test: its fields keep their initial values
HazardIdle == HazardNew(<<0, 0>>)

\* a RoundResolution; "none" stands for an undefined optional field
Resolution(first, secTrig, second, collapse, collapsed, dA, dB, wins) ==
    [firstPlane |-> first, secondPlaneTriggered |-> secTrig,
     secondPlane |-> second, collapseTriggered |-> collapse,
     collapsedTower |-> collapsed,
     destroyed |-> [A |-> dA, B |-> dB],
     survives |-> [A |-> ~dA, B |-> ~dB],
     selectedTowerWins |-> wins]

\* the record of a resolveRound call: the side passed, the resolution
\* returned, the number of next() calls it made and the error it raised
Round(sel, res, draws) ==
    [sel |-> sel, res |-> res, draws |-> draws, error |-> "none"]

NoRound == Round("none", Resolution("miss", FALSE, "none", FALSE, "none",
                                    FALSE, FALSE, FALSE), 0)

\* the locals of simulate(rounds) before loop iteration i + 1: the state of
\* its Rng and the counters
Sim(rounds, i, st, wins, hitA, hitB, miss, doublePlane, collapse) ==
    [rounds |-> rounds, i |-> i, rng |-> st, wins |-> wins, hitA |-> hitA,
     hitB |-> hitB, miss |-> miss, doublePlane |-> doublePlane,
     collapse |-> collapse]

NoSim == Sim(-1, 0, <<0, 0>>, 0, 0, 0, 0, 0, 0)

\* the fields of an Economy: the balance and the round value in cents, the
\* multiplier in units of 1/10000
Economy(bal, roundValue, multiplier, swipeCount) ==
    [balance |-> bal, roundValue |-> roundValue, multiplier |-> multiplier,
     swipeCount |-> swipeCount]

NoEconomy == Economy(0, 0, 0, 0)

\* the record of an Economy call: the operation, what startRound returned,
\* the profit in cents cashOut returned, the fields before the call, whether
\* a cashOut or onBomb has been called since the last successful startRound,
\* the balance after the first such call, and the number of calls so far
EcoCall(op, ok, profit, pre, ended, endBalance, ops) ==
    [op |-> op, ok |-> ok, profit |-> profit, pre |-> pre, ended |-> ended,
     endBalance |-> endBalance, ops |-> ops]

NoEcoCall == EcoCall("none", FALSE, 0, NoEconomy, FALSE, 0, 0)

INITIAL_BALANCE == 1000

\* the fields of a Game as their initialisers leave them, before its
\* constructor has bound the Ui and entered 'betting'
GameIdle ==
    /\ state = "idle"
    /\ selectedTower = "A"
    /\ balance = INITIAL_BALANCE
    /\ uiSelected = "A"
    /\ playEnabled = FALSE
    /\ pending = <<>>
    /\ simModals = 0
    /\ message = "none"
    /\ resolveCalls = 0
    /\ lastRound = NoRound

\* no simulate call is running and no Economy has been constructed
SideIdle ==
    /\ sim = NoSim
    /\ eco = NoEconomy
    /\ ecoCall = NoEcoCall

InitRng ==
    /\ inst = [i \in RngIds |-> NoRng]
    /\ outs = [i \in RngIds |-> <<>>]
    /\ picked = NoPick
    /\ SideIdle
    /\ HazardIdle
    /\ GameIdle

NextRng ==
    \/ \E i \in RngIds, seed \in Seeds : RngNew(i, seed)
    \/ \E i \in RngIds : RngCallNext(i)
    \/ \E i \in RngIds, n \in PickSizes : RngPick(i, n)

SpecRng == InitRng /\ [][NextRng]_vars

\* C8: two Rng instances constructed with the same seed return the same value
\* on their k-th next() call, for every k both have reached, whatever calls
\* were made on the other instances in between.
RngDeterminism ==
    \A i \in RngIds, j \in RngIds :
        (inst[i].made /\ inst[j].made /\ inst[i].seed = inst[j].seed) =>
            \A k \in 1..Len(outs[i]) : k <= Len(outs[j]) => outs[i][k] = outs[j][k]

\* two instances of one seed have both drawn MaxDraws values while a third
\* instance of another seed has drawn too
RngDeterminismWitness ==
    \E i \in RngIds, j \in RngIds, o \in RngIds :
        /\ i # j /\ inst[i].made /\ inst[j].made /\ inst[o].made
        /\ inst[i].seed = inst[j].seed /\ inst[o].seed # inst[i].seed
        /\ Len(outs[i]) = MaxDraws /\ Len(outs[j]) = MaxDraws /\ Len(outs[o]) > 0

\* C9: every value next() returned is u / 2^32 with u an unsigned 32-bit
\* integer, so it lies in [0, 1), and the state after a call is a signed
\* 32-bit integer.
RngNextRange ==
    \A i \in RngIds :
        /\ \A k \in 1..Len(outs[i]) : IsUint32(outs[i][k])
        /\ Len(outs[i]) > 0 => IsInt32(inst[i].state)

\* a call returned a value whose mixing result was negative before the
\* conversion to unsigned (here: at least 0.5), from a seed of 0xffffffff
RngNextRangeWitness ==
    \E i \in RngIds :
        /\ inst[i].made /\ inst[i].seed = <<65535, 65535>>
        /\ Len(outs[i]) > 0
        /\ outs[i][1][1] >= Half \div 2

\* C13: pick on an empty array fails with InvalidArgument and returns no
\* value; on an array of length n > 0 it returns the element at an index in
\* 0..n-1.
PickEmptyRejected ==
    picked.called =>
        IF picked.n = 0
        THEN picked.error = "InvalidArgument"
        ELSE /\ picked.error = "none"
             /\ picked.index \in 0..(picked.n - 1)
             /\ picked.value = "item"

----------------------------------------------------------------------------
(* OutcomeController: the hazard engine *)

RunTypes == {"short", "medium", "long"}

\* OutcomeController.BASE_PROB and GROW_RATE, in units of 1/10000
BASE_PROB(rt) == CASE rt = "short" -> 2500 [] rt = "medium" -> 1400 [] rt = "long" -> 800
GROW_RATE(rt) == CASE rt = "short" -> 600 [] rt = "medium" -> 300 [] rt = "long" -> 150

P_MIN == 400
P_MAX == 3000
STREAK_AT == 3

Min(a, b) == IF a < b THEN a ELSE b
Max(a, b) == IF a > b THEN a ELSE b

\* the growth subtracted instead of added
RawProbDecay(rt, swipeIndex) == BASE_PROB(rt) - GROW_RATE(rt) * swipeIndex

\* base + growth * swipeIndex, before the streak adjustment and the clamp
RawProb(rt, swipeIndex) == BASE_PROB(rt) + GROW_RATE(rt) * swipeIndex

\* the clamp applied before the streak factor instead of after it
getBombProbabilityClampFirst(rt, losses, wins, swipeIndex) ==
    LET prob == Min(P_MAX, Max(P_MIN, RawProb(rt, swipeIndex)))
    IN  IF losses >= STREAK_AT THEN (prob * 80) \div 100
        ELSE IF wins >= STREAK_AT THEN (prob * 110) \div 100
        ELSE prob

\* the streak factors applied only after more than three rounds
getBombProbabilityLateStreak(rt, losses, wins, swipeIndex) ==
    LET raw  == RawProb(rt, swipeIndex)
        prob == IF losses > STREAK_AT THEN (raw * 80) \div 100
                ELSE IF wins > STREAK_AT THEN (raw * 110) \div 100
                ELSE raw
    IN  Min(P_MAX, Max(P_MIN, prob))

\* the correction branch for win streaks left out
getBombProbabilityMercyOnly(rt, losses, wins, swipeIndex) ==
    LET raw  == RawProb(rt, swipeIndex)
        prob == IF losses >= STREAK_AT THEN (raw * 80) \div 100 ELSE raw
    IN  Min(P_MAX, Max(P_MIN, prob))

\* OutcomeController.getBombProbability, on the fields it reads
getBombProbability(rt, losses, wins, swipeIndex) ==
    LET raw  == RawProb(rt, swipeIndex)
        prob == IF losses >= STREAK_AT THEN (raw * 80) \div 100
                ELSE IF wins >= STREAK_AT THEN (raw * 110) \div 100
                ELSE raw
    IN  Min(P_MAX, Max(P_MIN, prob))

\* the branches for medium and long exchanged
RunTypeOfSwapped(u) ==
    IF Below(u, 3000) THEN "short"
    ELSE IF Below(u, 8000) THEN "long"
    ELSE "medium"

\* the run type startRound picks for the value u / 2^32 it drew
RunTypeOf(u) ==
    IF Below(u, 3000) THEN "short"
    ELSE IF Below(u, 8000) THEN "medium"
    ELSE "long"

\* step indexes the callers pass; the code accepts a negative one as well
StepInputs == {-1, 0, 3, MaxStepIndex}

\* startRound clearing the streak counters
StartRoundResetStreaks ==
    /\ roundNumber < MaxRound
    /\ drawCount < MaxEngineDraws
    /\ roundNumber' = roundNumber + 1
    /\ runType' = RunTypeOf(RngNextValue(rng))
    /\ rng' = RngNextState(rng)
    /\ drawCount' = drawCount + 1
    /\ roundOpen' = TRUE
    /\ consecutiveLosses' = 0
    /\ consecutiveWins' = 0
    /\ lastCall' = Call("startRound", -1, roundOpen, 0, FALSE)
    /\ UNCHANGED <<anyRoundEnd, rngVars, sideVars, gameVars>>

\* OutcomeController.startRound
StartRound ==
    /\ roundNumber < MaxRound
    /\ drawCount < MaxEngineDraws
    /\ roundNumber' = roundNumber + 1
    /\ runType' = RunTypeOf(RngNextValue(rng))
    /\ rng' = RngNextState(rng)
    /\ drawCount' = drawCount + 1
    /\ roundOpen' = TRUE
    /\ lastCall' = Call("startRound", -1, roundOpen, 0, FALSE)
    /\ UNCHANGED <<consecutiveLosses, consecutiveWins, anyRoundEnd, rngVars, sideVars, gameVars>>

\* getBombProbability drawing from the Rng as isBomb does
GetBombProbabilityDrawing(swipeIndex) ==
    /\ drawCount < MaxEngineDraws
    /\ lastCall' = Call("getBombProbability", swipeIndex, roundOpen,
                        getBombProbability(runType, consecutiveLosses,
                                           consecutiveWins, swipeIndex),
                        FALSE)
    /\ rng' = RngNextState(rng)
    /\ drawCount' = drawCount + 1
    /\ UNCHANGED <<runType, consecutiveLosses, consecutiveWins, roundNumber,
                   roundOpen, anyRoundEnd, rngVars, sideVars, gameVars>>

\* OutcomeController.getBombProbability(swipeIndex)
GetBombProbability(swipeIndex) ==
    /\ lastCall' = Call("getBombProbability", swipeIndex, roundOpen,
                        getBombProbability(runType, consecutiveLosses,
                                           consecutiveWins, swipeIndex),
                        FALSE)
    /\ UNCHANGED <<rng, runType, consecutiveLosses, consecutiveWins, roundNumber,
                   roundOpen, anyRoundEnd, drawCount, rngVars, sideVars, gameVars>>

\* OutcomeController.isBomb(swipeIndex)
IsBomb(swipeIndex) ==
    /\ drawCount < MaxEngineDraws
    /\ LET p == getBombProbability(runType, consecutiveLosses, consecutiveWins,
                                   swipeIndex)
       IN  lastCall' = Call("isBomb", swipeIndex, roundOpen, p,
                            Below(RngNextValue(rng), p))
    /\ rng' = RngNextState(rng)
    /\ drawCount' = drawCount + 1
    /\ UNCHANGED <<runType, consecutiveLosses, consecutiveWins, roundNumber,
                   roundOpen, anyRoundEnd, rngVars, sideVars, gameVars>>

\* the kinds of SAFE_CARDS, in the order of the array
SAFE_CARDS ==
    <<"strawberry", "butterfly", "taxi", "fruit", "guru", "hydration", "catceo",
      "ramen", "crypto", "mindfulness", "cleaning", "pizza", "dog", "drama">>

\* pickSafeCard(r) for r = u / 2^32: SAFE_CARDS[Math.floor(r * SAFE_CARDS.length)]
pickSafeCard(u) == SAFE_CARDS[PickIndex(u, Len(SAFE_CARDS)) + 1]

\* swipe indexes the card reel is asked for
SwipeInputs == {0, 3}

\* ReelEngine.nextCard(swipeIndex): isBomb on the controller, then one more
\* next() call for the safe card when the verdict is no bomb
NextCard(swipeIndex) ==
    /\ drawCount + 1 < MaxEngineDraws
    /\ LET p    == getBombProbability(runType, consecutiveLosses, consecutiveWins,
                                      swipeIndex)
           bomb == Below(RngNextValue(rng), p)
       IN  IF bomb
           THEN /\ lastCall' = CardCall("nextCard", swipeIndex, roundOpen, p, TRUE, "bomb")
                /\ rng' = RngNextState(rng)
                /\ drawCount' = drawCount + 1
           ELSE /\ lastCall' = CardCall("nextCard", swipeIndex, roundOpen, p, FALSE,
                                        pickSafeCard(RngNextValue(RngNextState(rng))))
                /\ rng' = RngNextState(RngNextState(rng))
                /\ drawCount' = drawCount + 2
    /\ UNCHANGED <<runType, consecutiveLosses, consecutiveWins, roundNumber,
                   roundOpen, anyRoundEnd, rngVars, sideVars, gameVars>>

\* ReelEngine.safePick(): one next() call, no call on the controller
SafePick ==
    /\ drawCount < MaxEngineDraws
    /\ lastCall' = CardCall("safePick", -1, roundOpen, 0, FALSE,
                            pickSafeCard(RngNextValue(rng)))
    /\ rng' = RngNextState(rng)
    /\ drawCount' = drawCount + 1
    /\ UNCHANGED <<runType, consecutiveLosses, consecutiveWins, roundNumber,
                   roundOpen, anyRoundEnd, rngVars, sideVars, gameVars>>

OnRoundLostKeepWins ==
    /\ consecutiveLosses < MaxStreak
    /\ consecutiveLosses' = consecutiveLosses + 1
    /\ roundOpen' = FALSE
    /\ anyRoundEnd' = TRUE
    /\ lastCall' = Call("onRoundLost", -1, roundOpen, 0, FALSE)
    /\ UNCHANGED <<consecutiveWins, rng, runType, roundNumber, drawCount, rngVars, sideVars, gameVars>>

\* OutcomeController.onRoundLost
OnRoundLost ==
    /\ consecutiveLosses < MaxStreak
    /\ consecutiveLosses' = consecutiveLosses + 1
    /\ consecutiveWins' = 0
    /\ roundOpen' = FALSE
    /\ anyRoundEnd' = TRUE
    /\ lastCall' = Call("onRoundLost", -1, roundOpen, 0, FALSE)
    /\ UNCHANGED <<rng, runType, roundNumber, drawCount, rngVars, sideVars, gameVars>>

\* onRoundWon adding the win to the losses as well
OnRoundWonCountsBoth ==
    /\ consecutiveWins < MaxStreak
    /\ consecutiveWins' = consecutiveWins + 1
    /\ consecutiveLosses' = consecutiveLosses + 1
    /\ roundOpen' = FALSE
    /\ anyRoundEnd' = TRUE
    /\ lastCall' = Call("onRoundWon", -1, roundOpen, 0, FALSE)
    /\ UNCHANGED <<rng, runType, roundNumber, drawCount, rngVars, sideVars, gameVars>>

\* OutcomeController.onRoundWon
OnRoundWon ==
    /\ consecutiveWins < MaxStreak
    /\ consecutiveWins' = consecutiveWins + 1
    /\ consecutiveLosses' = 0
    /\ roundOpen' = FALSE
    /\ anyRoundEnd' = TRUE
    /\ lastCall' = Call("onRoundWon", -1, roundOpen, 0, FALSE)
    /\ UNCHANGED <<rng, runType, roundNumber, drawCount, rngVars, sideVars, gameVars>>

\* seeds of the Rng the hazard engine is bound to: 1, 0xffffffff
HazardSeeds == {<<0, 1>>, <<65535, 65535>>}

InitHazard ==
    /\ inst = [i \in RngIds |-> NoRng]
    /\ outs = [i \in RngIds |-> <<>>]
    /\ picked = NoPick
    /\ SideIdle
    /\ \E seed \in HazardSeeds : HazardNew(seed)
    /\ GameIdle

NextHazard ==
    \/ StartRound
    \/ \E i \in StepInputs : GetBombProbability(i)
    \/ \E i \in StepInputs : IsBomb(i)
    \/ \E i \in SwipeInputs : NextCard(i)
    \/ SafePick
    \/ OnRoundLost
    \/ OnRoundWon

SpecHazard == InitHazard /\ [][NextHazard]_vars

\* the hazard probability of run type rt at a step, with the current streak
\* counters and with no streak active
HazardNow(rt, i) == getBombProbability(rt, consecutiveLosses, consecutiveWins, i)
HazardNoStreak(rt, i) == getBombProbability(rt, 0, 0, i)

\* C1: once onRoundWon or onRoundLost has been called, exactly one of
\* consecutiveWins and consecutiveLosses is nonzero; both are zero only
\* before the first round-end call.
StreakExclusive ==
    IF anyRoundEnd
    THEN \/ consecutiveWins > 0 /\ consecutiveLosses = 0
         \/ consecutiveWins = 0 /\ consecutiveLosses > 0
    ELSE consecutiveWins = 0 /\ consecutiveLosses = 0

\* a loss was just recorded in a started round while a streak is running
StreakExclusiveWitness ==
    /\ lastCall.op = "onRoundLost"
    /\ roundNumber > 0
    /\ consecutiveLosses = 2

\* C2: for every run type, every step index in 0..MaxStepIndex and the
\* streak counters of every reachable state, the hazard probability lies in
\* [P_MIN, P_MAX]; so does every probability a call returned.
HazardClamped ==
    /\ \A rt \in RunTypes, i \in 0..MaxStepIndex :
          HazardNow(rt, i) >= P_MIN /\ HazardNow(rt, i) <= P_MAX
    /\ lastCall.op \in {"getBombProbability", "isBomb"} =>
          lastCall.prob >= P_MIN /\ lastCall.prob <= P_MAX

\* getBombProbability(MaxStepIndex) was called during a win streak and the
\* raised value was cut down to P_MAX
HazardClampedWitness ==
    /\ lastCall.op = "getBombProbability"
    /\ lastCall.arg = MaxStepIndex
    /\ consecutiveWins >= STREAK_AT
    /\ lastCall.prob = P_MAX
    /\ (RawProb(runType, lastCall.arg) * 110) \div 100 > P_MAX

\* C3 as claimed: with consecutiveLosses >= 3 the hazard probability is
\* strictly lower than the no-streak value of the same run type and step,
\* and never below P_MIN.
MercyStrictlyLower ==
    consecutiveLosses >= STREAK_AT =>
        \A rt \in RunTypes, i \in 0..MaxStepIndex :
            HazardNow(rt, i) < HazardNoStreak(rt, i) /\ HazardNow(rt, i) >= P_MIN

\* C3 amended: with consecutiveLosses >= 3 and a step index >= 0 the hazard
\* probability of every run type is never
\* higher than the no-streak value and never below P_MIN; it is strictly
\* lower exactly when 0.80 * (base + growth * step) is below P_MAX, and
\* otherwise both values are P_MAX.
MercyLowerUnlessClamped ==
    consecutiveLosses >= STREAK_AT =>
        \A rt \in RunTypes, i \in 0..MaxStepIndex :
            /\ HazardNow(rt, i) >= P_MIN
            /\ HazardNow(rt, i) <= HazardNoStreak(rt, i)
            /\ (HazardNow(rt, i) < HazardNoStreak(rt, i))
                  <=> ((RawProb(rt, i) * 80) \div 100 < P_MAX)
            /\ (HazardNow(rt, i) = HazardNoStreak(rt, i)) => HazardNow(rt, i) = P_MAX

\* getBombProbability was called after three losses and returned less than
\* the no-streak value of the same run type and step
MercyWitness ==
    /\ consecutiveLosses >= STREAK_AT
    /\ lastCall.op = "getBombProbability"
    /\ lastCall.prob < HazardNoStreak(runType, lastCall.arg)

\* C4 as claimed: with consecutiveWins >= 3 the hazard probability is
\* strictly higher than the no-streak value of the same run type and step,
\* and never above P_MAX.
CorrectionStrictlyHigher ==
    consecutiveWins >= STREAK_AT =>
        \A rt \in RunTypes, i \in 0..MaxStepIndex :
            HazardNow(rt, i) > HazardNoStreak(rt, i) /\ HazardNow(rt, i) <= P_MAX

\* C4 amended: with consecutiveWins >= 3 and a step index >= 0 the hazard
\* probability of every run type is never
\* lower than the no-streak value and never above P_MAX; it is strictly
\* higher exactly when the no-streak value is below P_MAX, and otherwise
\* both values are P_MAX.
CorrectionHigherUnlessClamped ==
    consecutiveWins >= STREAK_AT =>
        \A rt \in RunTypes, i \in 0..MaxStepIndex :
            /\ HazardNow(rt, i) <= P_MAX
            /\ HazardNow(rt, i) >= HazardNoStreak(rt, i)
            /\ (HazardNow(rt, i) > HazardNoStreak(rt, i))
                  <=> (HazardNoStreak(rt, i) < P_MAX)

\* getBombProbability was called after three wins and returned more than
\* the no-streak value of the same run type and step
CorrectionWitness ==
    /\ consecutiveWins >= STREAK_AT
    /\ lastCall.op = "getBombProbability"
    /\ lastCall.prob > HazardNoStreak(runType, lastCall.arg)

\* C10: a round-end call made while no round is open (before any
\* startRound, or a second time for one round) raises ContractViolation.
RoundEndContractSignalled ==
    (lastCall.op \in {"onRoundWon", "onRoundLost"} /\ ~lastCall.open) =>
        lastCall.error = "ContractViolation"

\* C18: a startRound call makes one next() call and sets runType to short
\* when the value r it drew is below 0.30, to medium when 0.30 <= r < 0.80
\* and to long when r >= 0.80; every other call leaves runType as it is.
RunTypePartition ==
    [][IF roundNumber' # roundNumber
       THEN LET u == RngNextValue(rng)
            IN  /\ rng' = RngNextState(rng)
                /\ drawCount' = drawCount + 1
                /\ (runType' = "short") <=> Below(u, 3000)
                /\ (runType' = "medium") <=> (~Below(u, 3000) /\ Below(u, 8000))
                /\ (runType' = "long") <=> ~Below(u, 8000)
       ELSE runType' = runType]_vars

\* startRound drew a value of at least 0.80 and the run type is still long
\* after a later isBomb call of the same round
RunTypePartitionWitness ==
    /\ roundNumber = 1
    /\ runType = "long"
    /\ lastCall.op = "isBomb"

\* C19: a getBombProbability call makes no next() call and changes none of
\* runType, consecutiveWins, consecutiveLosses and roundNumber, and what it
\* returns is determined by these fields and the step index, so a repeated
\* call returns the same value; an isBomb call makes exactly one next() call
\* and changes none of these fields.
HazardCallsFrame ==
    [][/\ lastCall'.op = "getBombProbability" =>
            /\ UNCHANGED <<rng, drawCount, runType, consecutiveWins,
                           consecutiveLosses, roundNumber>>
            /\ lastCall'.prob = getBombProbability(runType, consecutiveLosses,
                                                   consecutiveWins, lastCall'.arg)
       /\ lastCall'.op = "isBomb" =>
            /\ rng' = RngNextState(rng)
            /\ drawCount' = drawCount + 1
            /\ UNCHANGED <<runType, consecutiveWins, consecutiveLosses, roundNumber>>
      ]_vars

\* getBombProbability was called in a started round after two draws had
\* been made, and the draw count is still two
HazardCallsFrameWitness ==
    /\ lastCall.op = "getBombProbability"
    /\ roundNumber = 1
    /\ drawCount = 2

\* C20: for every run type and the streak counters of every reachable
\* state, the hazard probability does not fall from one step index to the
\* next over 0..MaxStepIndex, hence getBombProbability(i) <=
\* getBombProbability(j) whenever 0 <= i <= j; checked directly for the step
\* indexes the callers pass.
HazardMonotone ==
    /\ \A rt \in RunTypes, i \in 0..(MaxStepIndex - 1) :
          HazardNow(rt, i) <= HazardNow(rt, i + 1)
    /\ \A rt \in RunTypes, i \in StepInputs, j \in StepInputs :
          (0 <= i /\ i <= j) => HazardNow(rt, i) <= HazardNow(rt, j)

\* getBombProbability(3) returned more than the value of step 0 in the same
\* round
HazardMonotoneWitness ==
    /\ lastCall.op = "getBombProbability"
    /\ lastCall.arg = 3
    /\ roundNumber > 0
    /\ lastCall.prob > HazardNow(runType, 0)

\* C23: an onRoundLost call adds exactly 1 to consecutiveLosses and sets
\* consecutiveWins to 0, an onRoundWon call adds exactly 1 to
\* consecutiveWins and sets consecutiveLosses to 0, and both leave runType,
\* roundNumber and the Rng state as they were.
RoundEndUpdate ==
    [][/\ lastCall'.op = "onRoundLost" =>
            /\ consecutiveLosses' = consecutiveLosses + 1
            /\ consecutiveWins' = 0
            /\ UNCHANGED <<runType, roundNumber, rng, drawCount>>
       /\ lastCall'.op = "onRoundWon" =>
            /\ consecutiveWins' = consecutiveWins + 1
            /\ consecutiveLosses' = 0
            /\ UNCHANGED <<runType, roundNumber, rng, drawCount>>
      ]_vars

\* a second win in a row was recorded in the second round, after draws
RoundEndUpdateWitness ==
    /\ lastCall.op = "onRoundWon"
    /\ consecutiveWins = 2
    /\ consecutiveLosses = 0
    /\ roundNumber = 2
    /\ drawCount > 0

\* C24: a startRound call adds exactly 1 to roundNumber, makes exactly one
\* next() call and leaves consecutiveWins and consecutiveLosses as they
\* were; no other call changes roundNumber, which is therefore the number
\* of startRound calls made.
StartRoundFrame ==
    [][IF lastCall'.op = "startRound"
       THEN /\ roundNumber' = roundNumber + 1
            /\ rng' = RngNextState(rng)
            /\ drawCount' = drawCount + 1
            /\ UNCHANGED <<consecutiveWins, consecutiveLosses>>
       ELSE roundNumber' = roundNumber]_vars

\* the second round was started after a loss and the loss is still counted
StartRoundFrameWitness ==
    /\ lastCall.op = "startRound"
    /\ roundNumber = 2
    /\ consecutiveLosses = 1
    /\ consecutiveWins = 0

\* C11: getBombProbability and isBomb called with a negative step index fail
\* with InvalidArgument: the call returns no probability or verdict and makes
\* no next() call on the Rng.
NegativeStepRejected ==
    (lastCall.op \in {"getBombProbability", "isBomb"} /\ lastCall.arg < 0) =>
        /\ lastCall.error = "InvalidArgument"
        /\ lastCall.prob = 0
        /\ ~lastCall.bomb

----------------------------------------------------------------------------
(* ProbabilityController: the discrete engine *)

BET == 10
PAYOUT_ON_WIN == 20
TARGET_RTP == 9500

\* BASE_FIRST_PLANE, BASE_DOUBLE_PLANE_ON_MISS and BASE_COLLAPSE, in units of
\* 1/10000; the TUNING multipliers in units of 1/1000
BASE_HIT_A == 4000
BASE_HIT_B == 4000
BASE_MISS == 2000
BASE_DOUBLE_PLANE_ON_MISS == 1000
BASE_COLLAPSE == 500
HIT_WEIGHT_MULTIPLIER == 1125
MISS_WEIGHT_MULTIPLIER == 500
COLLAPSE_MULTIPLIER == 2800
TOWER_CHANCE == 5000

Towers == {"A", "B"}

\* ProbabilityController.getEffectiveCollapseChance
getEffectiveCollapseChance ==
    Min(ProbScale, (BASE_COLLAPSE * COLLAPSE_MULTIPLIER) \div 1000)

\* the weights of rollPlaneOutcome
hitAWeight == (BASE_HIT_A * HIT_WEIGHT_MULTIPLIER) \div 1000
hitBWeight == (BASE_HIT_B * HIT_WEIGHT_MULTIPLIER) \div 1000
missWeight == (BASE_MISS * MISS_WEIGHT_MULTIPLIER) \div 1000
totalWeight == hitAWeight + hitBWeight + missWeight

\* r = next() * total for next() = u / 2^32: the pair <<a, b>> with
\* a * 65536 + b = u * totalWeight, so that r = (a * 65536 + b) / 2^32 in
\* units of 1/10000
RollValue(u) ==
    <<u[1] * totalWeight + (u[2] * totalWeight) \div Half, (u[2] * totalWeight) % Half>>

\* r < w for a value r and a weight w
WeightBelow(r, w) == r[1] < w * Half

\* the cumulative-weight comparisons of rollPlaneOutcome on the value r
planeOutcomeOf(r) ==
    IF WeightBelow(r, hitAWeight) THEN "hitA"
    ELSE IF WeightBelow(r, hitAWeight + hitBWeight) THEN "hitB"
    ELSE "miss"

\* ProbabilityController.rollPlaneOutcome on the value u / 2^32 it drew
rollPlaneOutcome(u) == planeOutcomeOf(RollValue(u))

\* ProbabilityController.randomTower on the value it drew
randomTower(u) == IF Below(u, TOWER_CHANCE) THEN "A" ELSE "B"

\* the most next() calls one resolveRound makes
MAX_RESOLVE_DRAWS == 5

\* the first plane rolled before the collapse is drawn
rollEventsPlaneFirst(d) ==
    LET firstPlane == rollPlaneOutcome(d[1])
        collapseTriggered == Below(d[2], getEffectiveCollapseChance)
        collapsedTower == IF collapseTriggered THEN randomTower(d[3]) ELSE "none"
        n3 == IF collapseTriggered THEN 3 ELSE 2
        secondPlaneTriggered ==
            firstPlane = "miss" /\ Below(d[n3 + 1], BASE_DOUBLE_PLANE_ON_MISS)
        n4 == IF firstPlane = "miss" THEN n3 + 1 ELSE n3
        secondPlane == IF secondPlaneTriggered THEN rollPlaneOutcome(d[n4 + 1])
                       ELSE "none"
        n5 == IF secondPlaneTriggered THEN n4 + 1 ELSE n4
    IN  [collapseTriggered |-> collapseTriggered, collapsedTower |-> collapsedTower,
         firstPlane |-> firstPlane, secondPlaneTriggered |-> secondPlaneTriggered,
         secondPlane |-> secondPlane, draws |-> n5]

\* the second plane rolled twice, the first roll discarded
rollEventsReroll(d) ==
    LET collapseTriggered == Below(d[1], getEffectiveCollapseChance)
        collapsedTower == IF collapseTriggered THEN randomTower(d[2]) ELSE "none"
        n2 == IF collapseTriggered THEN 2 ELSE 1
        firstPlane == rollPlaneOutcome(d[n2 + 1])
        n3 == n2 + 1
        secondPlaneTriggered ==
            firstPlane = "miss" /\ Below(d[n3 + 1], BASE_DOUBLE_PLANE_ON_MISS)
        n4 == IF firstPlane = "miss" THEN n3 + 1 ELSE n3
        secondPlane == IF secondPlaneTriggered THEN rollPlaneOutcome(d[n4 + 2])
                       ELSE "none"
        n5 == IF secondPlaneTriggered THEN n4 + 2 ELSE n4
    IN  [collapseTriggered |-> collapseTriggered, collapsedTower |-> collapsedTower,
         firstPlane |-> firstPlane, secondPlaneTriggered |-> secondPlaneTriggered,
         secondPlane |-> secondPlane, draws |-> n5]

\* the second-plane trigger drawn whatever the first plane did
rollEventsAlwaysTrigger(d) ==
    LET collapseTriggered == Below(d[1], getEffectiveCollapseChance)
        collapsedTower == IF collapseTriggered THEN randomTower(d[2]) ELSE "none"
        n2 == IF collapseTriggered THEN 2 ELSE 1
        firstPlane == rollPlaneOutcome(d[n2 + 1])
        n3 == n2 + 1
        secondPlaneTriggered == Below(d[n3 + 1], BASE_DOUBLE_PLANE_ON_MISS)
        n4 == n3 + 1
        secondPlane == IF secondPlaneTriggered THEN rollPlaneOutcome(d[n4 + 1])
                       ELSE "none"
        n5 == IF secondPlaneTriggered THEN n4 + 1 ELSE n4
    IN  [collapseTriggered |-> collapseTriggered, collapsedTower |-> collapsedTower,
         firstPlane |-> firstPlane, secondPlaneTriggered |-> secondPlaneTriggered,
         secondPlane |-> secondPlane, draws |-> n5]

\* the random part of resolveRound, given the values d[1], d[2], ... that
\* successive next() calls return: the collapse, the first plane and, after
\* a miss, the second plane; draws is the number of values it used
rollEvents(d) ==
    LET collapseTriggered == Below(d[1], getEffectiveCollapseChance)
        collapsedTower == IF collapseTriggered THEN randomTower(d[2]) ELSE "none"
        n2 == IF collapseTriggered THEN 2 ELSE 1
        firstPlane == rollPlaneOutcome(d[n2 + 1])
        n3 == n2 + 1
        secondPlaneTriggered ==
            firstPlane = "miss" /\ Below(d[n3 + 1], BASE_DOUBLE_PLANE_ON_MISS)
        n4 == IF firstPlane = "miss" THEN n3 + 1 ELSE n3
        secondPlane == IF secondPlaneTriggered THEN rollPlaneOutcome(d[n4 + 1])
                       ELSE "none"
        n5 == IF secondPlaneTriggered THEN n4 + 1 ELSE n4
    IN  [collapseTriggered |-> collapseTriggered, collapsedTower |-> collapsedTower,
         firstPlane |-> firstPlane, secondPlaneTriggered |-> secondPlaneTriggered,
         secondPlane |-> secondPlane, draws |-> n5]

\* a hit on tower B left out
applyPlaneOutcomeOnlyA(destroyed, outcome) ==
    [A |-> destroyed.A \/ outcome = "hitA", B |-> destroyed.B]

\* ProbabilityController.applyPlaneOutcome: the destroyed flags after it
applyPlaneOutcome(destroyed, outcome) ==
    [A |-> destroyed.A \/ outcome = "hitA", B |-> destroyed.B \/ outcome = "hitB"]

\* the verdict read for tower A whatever tower was selected
selectedTowerWinsFirst(sel, survives) == survives.A

\* survives[selectedTower]; a key the record does not have reads as undefined
selectedTowerWins(sel, survives) ==
    IF sel \in DOMAIN survives THEN survives[sel] ELSE "undefined"

\* ProbabilityController.resolveRound(selectedTower), given the values d[1],
\* d[2], ... that successive next() calls return; it uses the first `draws`
resolveRound(sel, d) ==
    LET e  == rollEvents(d)
        d1 == applyPlaneOutcome([A |-> FALSE, B |-> FALSE], e.firstPlane)
        d2 == IF e.secondPlane # "none" THEN applyPlaneOutcome(d1, e.secondPlane)
              ELSE d1
        destroyed == IF e.collapsedTower # "none"
                     THEN [d2 EXCEPT ![e.collapsedTower] = TRUE]
                     ELSE d2
        survives == [A |-> ~destroyed.A, B |-> ~destroyed.B]
    IN  Round(sel,
              Resolution(e.firstPlane, e.secondPlaneTriggered, e.secondPlane,
                         e.collapseTriggered, e.collapsedTower,
                         destroyed.A, destroyed.B,
                         selectedTowerWins(sel, survives)),
              e.draws)

\* the Rng state after n calls of next(): each call adds 0x6d2b79f5 to the
\* state and wraps it to 32 bits with | 0, so n calls add n * 0x6d2b79f5
RngAdvance(s, n) ==
    IF n = 0 THEN s
    ELSE LET lo == n * MULBERRY_INC[2]
         IN  ToInt32(Plus(ToInt32(s), <<n * MULBERRY_INC[1] + lo \div Half, lo % Half>>))

\* the values the next calls of next() return from state s
RngStream(s) == [k \in Nat \ {0} |-> RngNextValue(RngAdvance(s, k - 1))]

\* the sides a caller passes: the two towers and a value that is neither
Sides == Towers \cup {"C"}

\* a direct call of ProbabilityController.resolveRound(sel) on the engine
\* bound to rng
ResolveRound(sel) ==
    /\ resolveCalls < MaxResolveCalls
    /\ LET r == resolveRound(sel, RngStream(rng))
       IN  /\ lastRound' = r
           /\ rng' = RngAdvance(rng, r.draws)
    /\ resolveCalls' = resolveCalls + 1
    /\ UNCHANGED <<state, selectedTower, balance, uiSelected, playEnabled, pending,
                   simModals, message, rngVars, sideVars, runType, consecutiveLosses, consecutiveWins,
                   roundNumber, roundOpen, anyRoundEnd, drawCount, lastCall>>

\* seeds of the Rng the discrete engine under test is bound to
EngineSeeds == {<<0, k>> : k \in {1, 5, 7, 13, 17, 19, 37, 92, 214, 503, 2814}}

\* new ProbabilityController(new Rng(seed))
InitEngine ==
    /\ inst = [i \in RngIds |-> NoRng]
    /\ outs = [i \in RngIds |-> <<>>]
    /\ picked = NoPick
    /\ SideIdle
    /\ \E seed \in EngineSeeds : HazardNew(seed)
    /\ GameIdle

NextEngine == \E sel \in Sides : ResolveRound(sel)

SpecEngine == InitEngine /\ [][NextEngine]_vars

\* C12: resolveRound called with a side other than 'A' or 'B' fails with
\* InvalidArgument: it returns no resolution and makes no next() call, so
\* the Rng state is unchanged.
InvalidSideRejected ==
    (resolveCalls > 0 /\ lastRound.sel \notin Towers) =>
        /\ lastRound.error = "InvalidArgument"
        /\ lastRound.draws = 0

\* C14 as claimed: every resolveRound call makes at most 3 next() calls.
ResolveDrawsAtMostThree ==
    (resolveCalls > 0 /\ lastRound.sel \in Towers) => lastRound.draws <= 3

\* C14 amended: every resolveRound call for a tower makes at most 5 next()
\* calls: the collapse, its tower, the first plane, the second-plane trigger
\* and the second plane.
ResolveDrawsAtMostFive ==
    (resolveCalls > 0 /\ lastRound.sel \in Towers) =>
        lastRound.draws <= MAX_RESOLVE_DRAWS

\* a call for a tower in which the collapse triggered and the first plane
\* missed and a second plane flew: all five draws were made
ResolveDrawsWitness ==
    /\ resolveCalls > 0
    /\ lastRound.sel \in Towers
    /\ lastRound.res.collapseTriggered
    /\ lastRound.res.secondPlaneTriggered
    /\ lastRound.draws = MAX_RESOLVE_DRAWS

\* C15: in every resolution returned, destroyed[X] holds for a tower X
\* exactly when the first plane hit X, or a second plane exists and hit X, or
\* the collapse triggered with collapsedTower = X.
DestroyedDerivation ==
    resolveCalls > 0 =>
        \A X \in Towers :
            LET res == lastRound.res
                hitX == IF X = "A" THEN "hitA" ELSE "hitB"
            IN  res.destroyed[X] <=>
                    \/ res.firstPlane = hitX
                    \/ res.secondPlane # "none" /\ res.secondPlane = hitX
                    \/ res.collapseTriggered /\ res.collapsedTower = X

\* a resolution in which tower B fell to the second plane alone
DestroyedDerivationWitness ==
    /\ resolveCalls > 0
    /\ lastRound.res.secondPlane = "hitB"
    /\ ~lastRound.res.collapseTriggered
    /\ lastRound.res.destroyed = [A |-> FALSE, B |-> TRUE]

\* C16: in every resolution returned for a tower, selectedTowerWins is the
\* negation of destroyed[selectedTower], and in every resolution survives[X]
\* is the negation of destroyed[X] for both towers.
WinVerdict ==
    resolveCalls > 0 =>
        /\ \A X \in Towers :
              lastRound.res.survives[X] = ~lastRound.res.destroyed[X]
        /\ lastRound.sel \in Towers =>
              lastRound.res.selectedTowerWins = ~lastRound.res.destroyed[lastRound.sel]

\* tower B was selected and won while tower A was destroyed
WinVerdictWitness ==
    /\ resolveCalls > 0
    /\ lastRound.sel = "B"
    /\ lastRound.res.destroyed = [A |-> TRUE, B |-> FALSE]
    /\ lastRound.res.selectedTowerWins = TRUE

\* C17: in every resolveRound call the second-plane trigger is drawn exactly
\* when the first plane missed (the call makes one next() call for the
\* collapse, one for its tower if it triggered, one for the first plane, one
\* for the trigger after a miss and one for the second plane if triggered);
\* secondPlaneTriggered implies firstPlane = 'miss', and secondPlane is
\* present exactly when secondPlaneTriggered holds.
SecondOnlyAfterMiss ==
    resolveCalls > 0 =>
        LET res == lastRound.res
        IN  /\ res.secondPlaneTriggered => res.firstPlane = "miss"
            /\ (res.secondPlane # "none") <=> res.secondPlaneTriggered
            /\ lastRound.draws = 2 + (IF res.collapseTriggered THEN 1 ELSE 0)
                                   + (IF res.firstPlane = "miss" THEN 1 ELSE 0)
                                   + (IF res.secondPlaneTriggered THEN 1 ELSE 0)

\* the first plane missed, the trigger was drawn and a second plane flew
SecondOnlyAfterMissWitness ==
    /\ resolveCalls > 0
    /\ lastRound.res.firstPlane = "miss"
    /\ lastRound.res.secondPlaneTriggered
    /\ lastRound.res.secondPlane \in {"hitA", "hitB", "miss"}

\* C26: a resolveRound call reads the values of successive next() calls in
\* this order: the collapse trigger from the first; the collapsing tower
\* from the second, only if the collapse triggered; the first plane from the
\* next; the second-plane trigger from the next, only if the first plane
\* missed; the second plane from the next, only if triggered.  The Rng
\* advances by exactly the values read, collapsedTower is present exactly
\* when collapseTriggered holds, and the collapse depends on the first value
\* alone.
DrawOrder ==
    [][resolveCalls' # resolveCalls =>
          LET d   == RngStream(rng)
              res == lastRound'.res
              p   == IF res.collapseTriggered THEN 3 ELSE 2
              q   == IF res.firstPlane = "miss" THEN p + 2 ELSE p + 1
          IN  /\ res.collapseTriggered = Below(d[1], getEffectiveCollapseChance)
              /\ (res.collapsedTower # "none") <=> res.collapseTriggered
              /\ res.collapseTriggered => res.collapsedTower = randomTower(d[2])
              /\ res.firstPlane = rollPlaneOutcome(d[p])
              /\ res.firstPlane = "miss" =>
                    res.secondPlaneTriggered = Below(d[p + 1], BASE_DOUBLE_PLANE_ON_MISS)
              /\ res.firstPlane # "miss" => ~res.secondPlaneTriggered
              /\ res.secondPlaneTriggered => res.secondPlane = rollPlaneOutcome(d[q])
              /\ rng' = RngAdvance(rng, IF res.secondPlaneTriggered THEN q ELSE q - 1)
      ]_vars

\* a call in which the collapse triggered and the first plane, read from
\* the third value, hit a tower: three values were read
DrawOrderWitness ==
    /\ resolveCalls > 0
    /\ lastRound.res.collapseTriggered
    /\ lastRound.res.collapsedTower \in Towers
    /\ lastRound.res.firstPlane # "miss"
    /\ lastRound.draws = 3

----------------------------------------------------------------------------
(* The odds of resolveRound when each next() is uniform on [0, 1) *)

\* A draw matters only through the comparisons resolveRound makes with it,
\* so [0, 1) is cut at every threshold the code compares a draw against; each
\* cell has one representative draw and a weight in hundredths.
RECURSIVE SortedSeq(_)
SortedSeq(S) ==
    IF S = {} THEN <<>>
    ELSE LET m == CHOOSE x \in S : \A y \in S : x <= y
         IN  <<m>> \o SortedSeq(S \ {m})

Cuts ==
    SortedSeq({0, ProbScale, getEffectiveCollapseChance, TOWER_CHANCE,
               BASE_DOUBLE_PLANE_ON_MISS,
               (hitAWeight * ProbScale) \div totalWeight,
               ((hitAWeight + hitBWeight) * ProbScale) \div totalWeight})

NCells == Len(Cuts) - 1
CellWeight == [c \in 1..NCells |-> (Cuts[c + 1] - Cuts[c]) \div (ProbScale \div 100)]
CellDraw == [c \in 1..NCells |->
               <<(((Cuts[c] + Cuts[c + 1]) \div 2) * Half) \div ProbScale, 0>>]

\* masses are integers in units of 10^-10, kept as <<hi, lo>> to base 10^5
BigBase == 10 ^ 5
BigZero == <<0, 0>>
BigOf(n) == <<n \div BigBase, n % BigBase>>
BigAdd(a, b) == <<a[1] + b[1] + (a[2] + b[2]) \div BigBase, (a[2] + b[2]) % BigBase>>
BigTimes(a, k) == <<a[1] * k + (a[2] * k) \div BigBase, (a[2] * k) % BigBase>>
BigLeq(a, b) == a[1] < b[1] \/ (a[1] = b[1] /\ a[2] <= b[2])
\* a probability given in units of 1/10000
BigOfProb(p) == <<p * (BigBase \div ProbScale), 0>>

\* the mass of the draws that extend the cells chosen so far (prefix, of
\* weight w) and make resolveRound(sel) return selectedTowerWins = win
RECURSIVE MassFrom(_, _, _, _)
RECURSIVE MassOver(_, _, _, _, _)
MassFrom(sel, win, prefix, w) ==
    IF Len(prefix) = MAX_RESOLVE_DRAWS
    THEN IF resolveRound(sel, [k \in 1..MAX_RESOLVE_DRAWS |-> CellDraw[prefix[k]]])
                .res.selectedTowerWins = win
         THEN BigOf(w) ELSE BigZero
    ELSE MassOver(sel, win, prefix, w, 1)
MassOver(sel, win, prefix, w, c) ==
    IF c > NCells THEN BigZero
    ELSE BigAdd(MassFrom(sel, win, Append(prefix, c), w * CellWeight[c]),
                MassOver(sel, win, prefix, w, c + 1))

\* the probability that the selected tower survives, or is destroyed
WinMass == [t \in Towers |-> MassFrom(t, TRUE, <<>>, 1)]
LossMass == [t \in Towers |-> MassFrom(t, FALSE, <<>>, 1)]

----------------------------------------------------------------------------
(* Game: the controller of the discrete engine, and the Ui it listens to *)

\* a playRound invocation in flight: the await it is suspended at, the
\* resolution it holds and the next() calls its animation has made in the
\* callbacks after the play click
Flight(pc, res, draws) == [pc |-> pc, res |-> res, draws |-> draws]

RemoveAt(q, k) == [j \in 1..(Len(q) - 1) |-> IF j < k THEN q[j] ELSE q[j + 1]]

\* Game.playRound up to its first await: the balance check, the bet, the
\* resolveRound call and the start of runAnimation, whose flyPlane draws the
\* flight altitude
PlayRound ==
    IF balance < BET
    THEN /\ message' = "broke"
         /\ UNCHANGED <<state, selectedTower, balance, uiSelected, playEnabled,
                        pending, simModals, resolveCalls, lastRound, hazardVars,
                        rngVars, sideVars>>
    ELSE LET r == resolveRound(selectedTower, RngStream(rng))
         IN  /\ balance' = balance - BET
             /\ playEnabled' = FALSE
             /\ state' = "flying"
             /\ message' = "incoming"
             /\ rng' = RngAdvance(rng, r.draws + 1)
             /\ lastRound' = r
             /\ resolveCalls' = resolveCalls + 1
             /\ pending' = Append(pending, Flight("approach1", r.res, 0))
             /\ UNCHANGED <<selectedTower, uiSelected, simModals, rngVars, sideVars,
                            runType, consecutiveLosses, consecutiveWins, roundNumber,
                            roundOpen, anyRoundEnd, drawCount, lastCall>>

ClickPlayUnguarded ==
    /\ balance >= BET => resolveCalls < MaxGameRounds
    /\ PlayRound

\* a click on the play button: the onPlay callback of Game.bindUi
ClickPlay ==
    /\ (state = "betting" /\ balance >= BET) => resolveCalls < MaxGameRounds
    /\ IF state # "betting" THEN UNCHANGED vars ELSE PlayRound

\* the callback of bindUi taking the tower in every state
ClickTowerAlways(t) ==
    /\ uiSelected' = t
    /\ selectedTower' = t
    /\ UNCHANGED <<state, balance, playEnabled, pending, simModals, message, resolveCalls,
                   lastRound, hazardVars, rngVars, sideVars>>

\* a click on a tower button: Ui.onTowerSelect, then the callback of bindUi
ClickTower(t) ==
    /\ uiSelected' = t
    /\ selectedTower' = IF state = "betting" THEN t ELSE selectedTower
    /\ UNCHANGED <<state, balance, playEnabled, pending, simModals, message, resolveCalls,
                   lastRound, hazardVars, rngVars, sideVars>>

\* a click on the simulation button: simulate(200000) runs on an Rng and a
\* ProbabilityController of its own, then Ui.showSimulation adds a modal
ClickSim ==
    /\ simModals < MaxModals
    /\ simModals' = simModals + 1
    /\ UNCHANGED <<state, selectedTower, balance, uiSelected, playEnabled, pending,
                   message,
                   resolveCalls, lastRound, hazardVars, rngVars, sideVars>>

\* the close button of a simulation modal
CloseSim ==
    /\ simModals > 0
    /\ simModals' = simModals - 1
    /\ UNCHANGED <<state, selectedTower, balance, uiSelected, playEnabled, pending,
                   message,
                   resolveCalls, lastRound, hazardVars, rngVars, sideVars>>

\* next() calls of the effects of a plane: playDodgeCloudFx on both towers for
\* a miss, spawnImpactParticles and spawnDebris for a hit
DODGE_FX_DRAWS == 2 * (4 * 2 + 6 * 4)
IMPACT_FX_DRAWS == 20 * 3 + 30 * 6
flightEffectDraws(outcome) == IF outcome = "miss" THEN DODGE_FX_DRAWS ELSE IMPACT_FX_DRAWS

\* next() calls of spawnDebris(cx, cy, color, 30) in animateCollapse
COLLAPSE_FX_DRAWS == 30 * 6

\* flight k moves to the await pc after n more next() calls of its effects
FlightDraws(k, pc, n) ==
    /\ rng' = RngAdvance(rng, n)
    /\ pending' = [pending EXCEPT ![k].pc = pc, ![k].draws = @ + n]
    /\ UNCHANGED <<state, selectedTower, balance, uiSelected, playEnabled, simModals, message,
                   resolveCalls, lastRound, rngVars, sideVars,
                   runType, consecutiveLosses, consecutiveWins, roundNumber,
                   roundOpen, anyRoundEnd, drawCount, lastCall>>

\* flight k sets the message msg and moves to the await pc
FlightMessage(k, pc, msg) ==
    /\ message' = msg
    /\ pending' = [pending EXCEPT ![k].pc = pc]
    /\ UNCHANGED <<state, selectedTower, balance, uiSelected, playEnabled, simModals,
                   resolveCalls, lastRound, hazardVars, rngVars, sideVars>>

\* playRound after runAnimation without the payout of a win
AnimationDoneNoPay(k) ==
    /\ state' = IF pending[k].res.selectedTowerWins THEN "win" ELSE "lose"
    /\ pending' = [pending EXCEPT ![k].pc = "sleep"]
    /\ UNCHANGED <<selectedTower, balance, uiSelected, playEnabled, simModals, message,
                   resolveCalls, lastRound, hazardVars, rngVars, sideVars>>

\* runAnimation of flight k has returned: playRound pays, sets the verdict
\* and sleeps
AnimationDone(k) ==
    /\ LET win == pending[k].res.selectedTowerWins
       IN  /\ balance' = IF win THEN balance + PAYOUT_ON_WIN ELSE balance
           /\ state' = IF win THEN "win" ELSE "lose"
    /\ pending' = [pending EXCEPT ![k].pc = "sleep"]
    /\ UNCHANGED <<selectedTower, uiSelected, playEnabled, simModals, message, resolveCalls,
                   lastRound, hazardVars, rngVars, sideVars>>

\* runAnimation at its double plane event and after it
SecondPlaneEvent(k) ==
    IF pending[k].res.secondPlaneTriggered /\ pending[k].res.secondPlane # "none"
    THEN FlightMessage(k, "overlaySecond", "double")
    ELSE AnimationDone(k)

\* runAnimation at its self-collapse event and after it
CollapseEvent(k) ==
    IF pending[k].res.collapseTriggered /\ pending[k].res.collapsedTower # "none"
    THEN FlightMessage(k, "overlayCollapse", "collapse")
    ELSE SecondPlaneEvent(k)

\* the approach tween of the first plane of flight k completes: flyToImpact
\* plays the explosion, flyMiss the dodge clouds
FirstPlaneEffects(k) ==
    /\ pending[k].pc = "approach1"
    /\ FlightDraws(k, "exit1", flightEffectDraws(pending[k].res.firstPlane))

\* the first flyPlane and wiggleTowers of flight k complete
FirstPlaneDone(k) ==
    /\ pending[k].pc = "exit1"
    /\ CollapseEvent(k)

\* showOverlay of the collapse completes: animateCollapse spawns its debris
CollapseEffects(k) ==
    /\ pending[k].pc = "overlayCollapse"
    /\ FlightDraws(k, "collapse", COLLAPSE_FX_DRAWS)

\* the tween of animateCollapse and sleep(200) of flight k complete
CollapseDone(k) ==
    /\ pending[k].pc = "collapse"
    /\ SecondPlaneEvent(k)

\* dramaticZoom and showOverlay of the second plane complete: flyPlane
\* draws the flight altitude
SecondPlaneStart(k) ==
    /\ pending[k].pc = "overlaySecond"
    /\ FlightDraws(k, "approach2", 1)

\* the approach tween of the second plane of flight k completes
SecondPlaneEffects(k) ==
    /\ pending[k].pc = "approach2"
    /\ FlightDraws(k, "exit2", flightEffectDraws(pending[k].res.secondPlane))

\* the second flyPlane and wiggleTowers of flight k complete
SecondPlaneDone(k) ==
    /\ pending[k].pc = "exit2"
    /\ AnimationDone(k)

\* sleep(180) of flight k completes: playRound shows the round popup
SleepDone(k) ==
    /\ pending[k].pc = "sleep"
    /\ pending' = [pending EXCEPT ![k].pc = "popup"]
    /\ UNCHANGED <<state, selectedTower, balance, uiSelected, playEnabled, simModals, message,
                   resolveCalls, lastRound, hazardVars, rngVars, sideVars>>

\* a click on the popup button of flight k: the handler of showRoundPopup
\* hides the popup and calls Game.enterBetting
ClosePopup(k) ==
    /\ pending[k].pc = "popup"
    /\ state' = "betting"
    /\ playEnabled' = TRUE
    /\ message' = "pick"
    /\ pending' = RemoveAt(pending, k)
    /\ UNCHANGED <<selectedTower, balance, uiSelected, simModals, resolveCalls,
                   lastRound, hazardVars, rngVars, sideVars>>

\* seeds the Game's Rng may start from: 1, 7, 2814
GameSeeds == {<<0, 1>>, <<0, 7>>, <<0, 2814>>}

\* the Rng state 0x7439367f of a Game of seed 2814 after 119 rounds in each
\* of which the player chose a tower that fell, if one fell (109 lost, 10
\* won, 30685 next() calls); its balance is then one bet
LATE_RNG == <<29753, 13951>>

\* the Rng state and balance of the Game when it stands in 'betting' with
\* no round in flight: a new Game, or the late Game above
GameStarts ==
    {[rng |-> s, balance |-> INITIAL_BALANCE] : s \in GameSeeds}
        \cup {[rng |-> LATE_RNG, balance |-> BET]}

\* new Game(): the fields, bindUi, enterBetting
InitGame ==
    /\ inst = [i \in RngIds |-> NoRng]
    /\ outs = [i \in RngIds |-> <<>>]
    /\ picked = NoPick
    /\ SideIdle
    /\ HazardFresh
    /\ \E g \in GameStarts : rng = g.rng /\ balance = g.balance
    /\ state = "betting"
    /\ selectedTower = "A"
    /\ uiSelected = "A"
    /\ playEnabled = TRUE
    /\ pending = <<>>
    /\ simModals = 0
    /\ message = "pick"
    /\ resolveCalls = 0
    /\ lastRound = NoRound

NextGame ==
    \/ ClickPlay
    \/ \E t \in Towers : ClickTower(t)
    \/ ClickSim
    \/ CloseSim
    \/ \E k \in 1..Len(pending) : FirstPlaneEffects(k)
    \/ \E k \in 1..Len(pending) : FirstPlaneDone(k)
    \/ \E k \in 1..Len(pending) : CollapseEffects(k)
    \/ \E k \in 1..Len(pending) : CollapseDone(k)
    \/ \E k \in 1..Len(pending) : SecondPlaneStart(k)
    \/ \E k \in 1..Len(pending) : SecondPlaneEffects(k)
    \/ \E k \in 1..Len(pending) : SecondPlaneDone(k)
    \/ \E k \in 1..Len(pending) : SleepDone(k)
    \/ \E k \in 1..Len(pending) : ClosePopup(k)

SpecGame == InitGame /\ [][NextGame]_vars

\* C5: the probability that the selected tower survives a resolveRound call,
\* times the payout multiple PAYOUT_ON_WIN / BET, lies within TARGET_RTP
\* +- 0.01, for the tower of every round the Game resolved.
RtpWithinTarget ==
    lastRound.sel \in Towers =>
        LET paid == BigTimes(WinMass[lastRound.sel], PAYOUT_ON_WIN)
        IN  /\ BigLeq(BigTimes(BigOfProb(TARGET_RTP - 100), BET), paid)
            /\ BigLeq(paid, BigTimes(BigOfProb(TARGET_RTP + 100), BET))

\* the loss probability as the TUNING comment derives it: P(hit-selected) +
\* P(miss) * P(second) * P(hit-selected) + P(collapse) * 0.5
DocumentedLoss ==
    LET hit    == (hitAWeight * ProbScale) \div totalWeight
        miss   == (missWeight * ProbScale) \div totalWeight
        second == (miss * BASE_DOUBLE_PLANE_ON_MISS) \div ProbScale
    IN  BigAdd(BigOfProb(hit),
               BigAdd(BigOf(second * hit * 100),
                      BigOf(((getEffectiveCollapseChance * TOWER_CHANCE) \div 100)
                            * ProbScale)))

\* C6: the probability that the selected tower is destroyed in a
\* resolveRound call equals P(hit-selected) + P(miss) * P(second) *
\* P(hit-selected) + P(collapse) * 0.5, which is 0.5245.
LossAsDocumented ==
    lastRound.sel \in Towers =>
        /\ LossMass[lastRound.sel] = DocumentedLoss
        /\ DocumentedLoss = BigOfProb(5245)

\* C7: the Game holds at most one playRound invocation in flight: it calls
\* resolveRound only when no earlier round is still waiting for its
\* animation, its popup or the close of its popup, and while a round is in
\* flight the state is not 'betting'.
OneResolutionInFlight ==
    /\ Len(pending) <= 1
    /\ Len(pending) = 1 => state \in {"flying", "win", "lose"}
    /\ Len(pending) = 0 => state = "betting"

\* the second round is in flight after the popup of the first was closed
OneResolutionInFlightWitness ==
    /\ resolveCalls = 2
    /\ Len(pending) = 1
    /\ pending[1].pc = "approach1"

\* C28: Game.selectedTower changes only in a step taken in state 'betting';
\* while a round is in flight (from the resolveRound call of playRound to
\* the close of the round popup) it is the tower that was passed to
\* resolveRound, and the resolution the round pays by is the one that call
\* returned.
SelectionFrozen ==
    [][/\ selectedTower' # selectedTower => state = "betting"
       /\ Len(pending') > 0 =>
            /\ selectedTower' = lastRound'.sel
            /\ \A k \in 1..Len(pending') : pending'[k].res = lastRound'.res
      ]_vars

\* a tower button was clicked while a round for tower A was in flight: the
\* Ui marks tower B, the Game still holds tower A
SelectionFrozenWitness ==
    /\ Len(pending) = 1
    /\ state = "flying"
    /\ uiSelected = "B"
    /\ selectedTower = "A"
    /\ lastRound.sel = "A"

\* C29: in every reachable state the tower the Ui marks as selected is
\* Game.selectedTower.
UiAgreesWithGame == uiSelected = selectedTower

\* C30: the balance is never negative; resolveRound is called only in a
\* step that starts with a balance of at least BET and takes exactly BET
\* from it; the balance changes otherwise only when the animation of a round
\* ends: the step in which it ends adds exactly PAYOUT_ON_WIN if
\* selectedTowerWins is true and leaves the balance as it is if it is
\* false, and no other step adds to the balance, so that a round is paid
\* once; a play click made with a balance below BET changes neither the
\* balance nor the state.
BalanceAccounting ==
    [][/\ balance >= 0 /\ balance' >= 0
       /\ resolveCalls' # resolveCalls =>
            /\ resolveCalls' = resolveCalls + 1
            /\ balance >= BET
            /\ balance' = balance - BET
       /\ (resolveCalls' = resolveCalls /\ balance' # balance) =>
            /\ balance' = balance + PAYOUT_ON_WIN
            /\ \E k \in 1..Len(pending) :
                  /\ pending[k].pc \in {"exit1", "collapse", "exit2"}
                  /\ pending[k].res.selectedTowerWins = TRUE
                  /\ pending' = [pending EXCEPT ![k].pc = "sleep"]
       /\ \A k \in 1..Len(pending) :
            (pending[k].pc # "sleep" /\ pending' = [pending EXCEPT ![k].pc = "sleep"]) =>
                balance' = IF pending[k].res.selectedTowerWins
                           THEN balance + PAYOUT_ON_WIN
                           ELSE balance
       /\ (message' = "broke" /\ message # "broke") =>
            /\ balance < BET
            /\ balance' = balance
            /\ state' = state
       /\ (balance < BET /\ state = "betting") => (balance' = balance /\ state' = state)
      ]_vars

\* a play click was refused with a balance of 0 in a Game that had one bet
\* left and then played three rounds: one of them was won and paid, two
\* were lost, the last of them the third
BalanceAccountingWitness ==
    /\ message = "broke"
    /\ balance = 0
    /\ state = "betting"
    /\ resolveCalls = 3
    /\ ~lastRound.res.selectedTowerWins

----------------------------------------------------------------------------
(* simulate: the simulation harness of the discrete engine *)

\* 0x5eedc0de, the seed simulate gives its Rng
SIM_SEED == <<24301, 49374>>

\* countOutcome without its branch for a miss
countOutcomeNoMiss(c, outcome) ==
    [c EXCEPT !.hitA = IF outcome = "hitA" THEN @ + 1 ELSE @,
              !.hitB = IF outcome = "hitB" THEN @ + 1 ELSE @]

\* countOutcome(outcome), on the counters of simulate
countOutcome(c, outcome) ==
    [c EXCEPT !.hitA = IF outcome = "hitA" THEN @ + 1 ELSE @,
              !.hitB = IF outcome = "hitB" THEN @ + 1 ELSE @,
              !.miss = IF outcome = "miss" THEN @ + 1 ELSE @]

\* the arguments simulate is called with
SimRounds == {0, 1, MaxSimRounds}

\* the counter updates of one iteration of simulate for the result res of
\* resolveRound, which made the given number of draws after the tower pick
simCounted(s, res, draws) ==
    LET c1 == [s EXCEPT !.wins = IF res.selectedTowerWins = TRUE THEN @ + 1 ELSE @,
                        !.collapse = IF res.collapseTriggered THEN @ + 1 ELSE @,
                        !.doublePlane = IF res.secondPlaneTriggered THEN @ + 1 ELSE @]
        c2 == countOutcome(c1, res.firstPlane)
        c3 == IF res.secondPlane # "none" THEN countOutcome(c2, res.secondPlane)
              ELSE c2
    IN  [c3 EXCEPT !.i = @ + 1, !.rng = RngAdvance(s.rng, 1 + draws)]

\* the effect of one iteration given the outcome r of its resolveRound call
simResolved(s, r) == simCounted(s, r.res, r.draws)

\* one iteration of the loop of simulate: the tower is picked with one
\* next() call, resolveRound runs on the same Rng, the counters are updated
SimRound ==
    /\ sim.i < sim.rounds
    /\ sim' = simResolved(sim, resolveRound(randomTower(RngNextValue(sim.rng)), RngStream(RngNextState(sim.rng))))
    /\ UNCHANGED <<eco, ecoCall, rngVars, hazardVars, gameVars>>

\* simulate(rounds) has been entered: its Rng and its counters are fresh
InitSim ==
    /\ inst = [i \in RngIds |-> NoRng]
    /\ outs = [i \in RngIds |-> <<>>]
    /\ picked = NoPick
    /\ HazardIdle
    /\ GameIdle
    /\ \E n \in SimRounds : sim = Sim(n, 0, SIM_SEED, 0, 0, 0, 0, 0, 0)
    /\ eco = NoEconomy
    /\ ecoCall = NoEcoCall

NextSim == SimRound

SpecSim == InitSim /\ [][NextSim]_vars

\* C21: after every iteration of simulate(n), and so when it returns, the
\* counted hitA, hitB and miss outcomes sum to the number of rounds run plus
\* the number of rounds in which a second plane was triggered, and the
\* number of wins is at most the number of rounds run; on return the rounds
\* run are n.
SimCountsEveryDraw ==
    /\ sim.hitA + sim.hitB + sim.miss = sim.i + sim.doublePlane
    /\ sim.wins <= sim.i
    /\ sim.i <= Max(sim.rounds, 0)

\* simulate(MaxSimRounds) has run all its rounds, a second plane was
\* triggered in some of them and some rounds were lost
SimCountsWitness ==
    /\ sim.rounds = MaxSimRounds
    /\ sim.i = sim.rounds
    /\ sim.doublePlane > 0
    /\ sim.wins < sim.i

----------------------------------------------------------------------------
(* Economy: the balance and the pot of the swipe game *)

\* Economy._roundCost in cents, _multiplierStep 1.1 as 11 / 10, and the
\* multiplier 1.0 in units of 1/10000
ROUND_COST == 1000
MULT_ONE == 100 * 100

\* parseFloat(Math.pow(1.1, n).toFixed(4)) in units of 1/10000, for the
\* swipe counts 1..8: 11^n / 10^n rounded to four decimals
MultiplierAt(n) ==
    IF n <= 4 THEN 11 ^ n * 10 ^ (4 - n)
    ELSE (11 ^ n + (10 ^ (n - 4)) \div 2) \div (10 ^ (n - 4))

\* (a * b) % n without a product above 2 * n
RECURSIVE MulMod(_, _, _)
MulMod(a, b, n) ==
    IF b = 0 THEN 0
    ELSE (MulMod((a + a) % n, b \div 2, n) + (IF b % 2 = 1 THEN a % n ELSE 0)) % n

\* 2^s % n
RECURSIVE PowTwoMod(_, _)
PowTwoMod(s, n) == IF s = 0 THEN 1 % n ELSE (2 * PowTwoMod(s - 1, n)) % n

\* the binary exponent of the number multiplier / 10000 >= 1: the least e
\* from e0 on with multiplier / 10000 < 2^(e + 1)
RECURSIVE DoubleExponent(_, _)
DoubleExponent(multiplier, e0) ==
    IF MULT_ONE * 2 ^ (e0 + 1) <= multiplier THEN DoubleExponent(multiplier, e0 + 1)
    ELSE e0

\* the double d that parseFloat gave for the multiplier is M * 2^-s with a
\* 53-bit integer M, the nearest to multiplier * 2^s / 10000 (the even one on
\* a tie): the last four bits of M, and r = multiplier * 2^s - 10000 * M
MultiplierDouble(multiplier) ==
    LET s  == 52 - DoubleExponent(multiplier, 0)
        n  == MulMod(multiplier % (16 * MULT_ONE), PowTwoMod(s, 16 * MULT_ONE),
                     16 * MULT_ONE)
        m0 == n \div MULT_ONE
        r0 == n % MULT_ONE
        up == r0 * 2 > MULT_ONE \/ (r0 * 2 = MULT_ONE /\ m0 % 2 = 1)
    IN  [bits |-> IF up THEN (m0 + 1) % 16 ELSE m0,
         r    |-> IF up THEN r0 - MULT_ONE ELSE r0]

\* roundCost * multiplier on doubles, for roundCost = 10: the exact product
\* 10 * M has 56 or 57 bits and is rounded to 53 bits (to the even one on a
\* tie) by delta; the product is at or above the decimal roundCost *
\* multiplier / 10000 iff 10000 * delta >= 10 * r
ProductAtOrAbove(multiplier) ==
    LET cost  == ROUND_COST \div 100
        d     == MultiplierDouble(multiplier)
        t     == IF cost * multiplier < 16 * MULT_ONE * 2 ^ DoubleExponent(multiplier, 0)
                 THEN 3 ELSE 4
        q     == (cost * d.bits) % 32
        low   == q % 2 ^ t
        half  == 2 ^ (t - 1)
        delta == IF low < half THEN 0 - low
                 ELSE IF low > half THEN 2 ^ t - low
                 ELSE IF (q \div 2 ^ t) % 2 = 0 THEN 0 - low
                 ELSE half
    IN  MULT_ONE * delta >= cost * d.r

\* parseFloat((roundCost * multiplier).toFixed(2)) in cents: toFixed rounds
\* the exact value of the double product to the nearest cent, so a decimal
\* product halfway between two cents goes the way the double lies
RoundValueAt(multiplier) ==
    LET x == (ROUND_COST \div 100) * multiplier
    IN  IF x % 100 = 50
        THEN (IF ProductAtOrAbove(multiplier) THEN x \div 100 + 1 ELSE x \div 100)
        ELSE (x + 50) \div 100

\* the ended flag and the balance it goes with, after a cashOut or onBomb
\* call that leaves the balance at bal
EndedAt(bal) == IF ecoCall.ended THEN ecoCall.endBalance ELSE bal

\* startRound without the canStartRound check
EcoStartRoundUnchecked ==
    /\ ecoCall.ops < MaxEcoOps
    /\ eco' = Economy(eco.balance - ROUND_COST, ROUND_COST, MULT_ONE, 0)
    /\ ecoCall' = EcoCall("startRound", TRUE, 0, eco, FALSE, 0, ecoCall.ops + 1)
    /\ UNCHANGED <<sim, rngVars, hazardVars, gameVars>>

\* Economy.startRound
EcoStartRound ==
    /\ ecoCall.ops < MaxEcoOps
    /\ IF eco.balance >= ROUND_COST
       THEN /\ eco' = Economy(eco.balance - ROUND_COST, ROUND_COST, MULT_ONE, 0)
            /\ ecoCall' = EcoCall("startRound", TRUE, 0, eco, FALSE, 0,
                                  ecoCall.ops + 1)
       ELSE /\ eco' = eco
            /\ ecoCall' = EcoCall("startRound", FALSE, 0, eco, ecoCall.ended,
                                  ecoCall.endBalance, ecoCall.ops + 1)
    /\ UNCHANGED <<sim, rngVars, hazardVars, gameVars>>

\* Economy.onSafeSwipe
EcoOnSafeSwipe ==
    /\ ecoCall.ops < MaxEcoOps
    /\ LET n == eco.swipeCount + 1
           m == MultiplierAt(n)
       IN  eco' = Economy(eco.balance, RoundValueAt(m), m, n)
    /\ ecoCall' = EcoCall("onSafeSwipe", FALSE, 0, eco, ecoCall.ended,
                          ecoCall.endBalance, ecoCall.ops + 1)
    /\ UNCHANGED <<sim, rngVars, hazardVars, gameVars>>

\* Economy.cashOut
EcoCashOut ==
    /\ ecoCall.ops < MaxEcoOps
    /\ eco' = [eco EXCEPT !.balance = @ + eco.roundValue, !.roundValue = 0]
    /\ ecoCall' = EcoCall("cashOut", FALSE, eco.roundValue, eco, TRUE,
                          EndedAt(eco.balance + eco.roundValue), ecoCall.ops + 1)
    /\ UNCHANGED <<sim, rngVars, hazardVars, gameVars>>

\* Economy.onBomb
EcoOnBomb ==
    /\ ecoCall.ops < MaxEcoOps
    /\ eco' = [eco EXCEPT !.roundValue = 0]
    /\ ecoCall' = EcoCall("onBomb", FALSE, 0, eco, TRUE, EndedAt(eco.balance),
                          ecoCall.ops + 1)
    /\ UNCHANGED <<sim, rngVars, hazardVars, gameVars>>

\* balances in cents given to the constructor: 0, 5, 10 and the default 1000
EcoBalances == {0, 500, ROUND_COST, 100 * ROUND_COST}

\* new Economy(initialBalance)
InitEco ==
    /\ inst = [i \in RngIds |-> NoRng]
    /\ outs = [i \in RngIds |-> <<>>]
    /\ picked = NoPick
    /\ HazardIdle
    /\ GameIdle
    /\ sim = NoSim
    /\ \E b \in EcoBalances : eco = Economy(b, 0, MULT_ONE, 0)
    /\ ecoCall = NoEcoCall

NextEco ==
    \/ EcoStartRound
    \/ EcoOnSafeSwipe
    \/ EcoCashOut
    \/ EcoOnBomb

SpecEco == InitEco /\ [][NextEco]_vars

\* C22: a startRound call made with a balance below the round cost returns
\* false and leaves balance, round value, multiplier and swipe count as
\* they were; otherwise it returns true, takes exactly the round cost from
\* the balance and sets the round value to the round cost, the multiplier
\* to 1 and the swipe count to 0; and the balance is never negative.
EconomyRoundEntry ==
    /\ eco.balance >= 0
    /\ ecoCall.op = "startRound" =>
          IF ecoCall.pre.balance < ROUND_COST
          THEN ~ecoCall.ok /\ eco = ecoCall.pre
          ELSE /\ ecoCall.ok
               /\ eco = Economy(ecoCall.pre.balance - ROUND_COST, ROUND_COST,
                                MULT_ONE, 0)

\* startRound was refused for a balance of 0 after swipes and a round end
EconomyRoundEntryWitness ==
    /\ ecoCall.op = "startRound"
    /\ ~ecoCall.ok
    /\ ecoCall.ops >= 3
    /\ eco.balance = 0
    /\ eco.swipeCount > 0

\* C27: once cashOut or onBomb has been called, the balance does not rise
\* above what that call left until startRound succeeds again, whatever
\* onSafeSwipe, cashOut and onBomb calls follow.
PotPaidOnce ==
    ecoCall.ended => eco.balance <= ecoCall.endBalance

====
